---- MODULE Spec2Model ----
(***************************************************************************)
(* Model of object-store-bench: location inspection, block and columnar    *)
(* layout planning, and the bounded range-fetch window built from          *)
(* stream::iter(..).map(..).buffered(n).try_collect() over tokio tasks.    *)
(***************************************************************************)
EXTENDS Integers, Sequences, FiniteSets, TLC

\* ---------------------------------------------------------------- bounds
MaxObjects == 2
MaxObjectSize == 3
MaxParallel == 2
MaxBlockSize == 2
MaxPageSize == 2
MaxColumns == 2
MaxFailures == 2
\* the most get_range calls a run of the scheduling specification plans
MaxCalls == 4
\* bounds of the layout-only specification
MaxLayoutSize == 10
MaxLayoutPar == 3
MaxLayoutPage == 2
MaxLayoutColumns == 3

VARIABLES
    input,      \* the run's arguments and the backend's answers to head/list
    pc,         \* position of the benchmark function
    objects,    \* Vec<ObjectMeta> returned by inspect_location (sizes)
    layout,     \* object_size, unit size, unit count, page_offsets
    plan,       \* ranges_iter: sequence of (unit index, object index)
    nextTask,   \* position of stream::iter in plan (next item to pull)
    queue,      \* FuturesOrdered: admitted, not yet yielded, in order
    fut,        \* per plan item: state of its future
    rq,         \* FuturesUnordered ready-to-run queue
    calls,      \* per get_range call: state of its spawned task
    issued,     \* per get_range call: number of times it was started
    collected,  \* Vec built by try_collect
    printed,    \* the result records printed, in order
    abort,      \* why the run ended abnormally, and the calls then in flight
    headCalls,  \* number of head requests made
    listCalls   \* number of list requests made

vars == <<input, pc, objects, layout, plan, nextTask, queue, fut, rq, calls,
          issued, collected, printed, abort, headCalls, listCalls>>

\* ---------------------------------------------------------------- helpers
Min(a, b) == IF a <= b THEN a ELSE b

RECURSIVE SumSeq(_)
SumSeq(s) == IF s = <<>> THEN 0 ELSE s[1] + SumSeq(Tail(s))

SeqsUpTo(S, lo, hi) == UNION {[1..n -> S] : n \in lo..hi}

\* variant: objects no larger than the first one are accepted
AllSameOrSmaller(s) == \A i \in 1..Len(s) : s[i] <= s[1]

\* objects.iter().all(|o| o.size == object_size), object_size = objects[0].size
AllSame(s) == \A i \in 1..Len(s) : s[i] = s[1]

NoLayout == [object_size |-> 0, unit_size |-> 0, num_units |-> 0,
             page_offsets |-> <<>>]
NoAbort == [kind |-> "none", task |-> 0, col |-> 0, inflight |-> {}]

\* ---------------------------------------------------------------- inspect_location
\* variant: every head error, not only NotFound, falls through to list
inspect_location_any_error(in) ==
    IF in.head = "ok" THEN [ok |-> TRUE, objs |-> <<in.headSize>>, lists |-> 0, kind |-> "none"]
    ELSE IF in.listFails THEN [ok |-> FALSE, objs |-> <<>>, lists |-> 1, kind |-> "list"]
    ELSE [ok |-> TRUE, objs |-> in.listing, lists |-> 1, kind |-> "none"]

\* head Ok -> that one object; head NotFound -> list; anything else -> Err
inspect_location(in) ==
    IF in.head = "ok" THEN [ok |-> TRUE, objs |-> <<in.headSize>>, lists |-> 0, kind |-> "none"]
    ELSE IF in.head = "notfound" THEN
        IF in.listFails THEN [ok |-> FALSE, objs |-> <<>>, lists |-> 1, kind |-> "list"]
        ELSE [ok |-> TRUE, objs |-> in.listing, lists |-> 1, kind |-> "none"]
    ELSE [ok |-> FALSE, objs |-> <<>>, lists |-> 0, kind |-> "head"]

\* ---------------------------------------------------------------- block layout
\* block_size.unwrap_or(object_size / parallel_downloads)
DefaultBlockSize(object_size, parallel_downloads) == object_size \div parallel_downloads

BlockSizeOf(opt, object_size, parallel_downloads) ==
    IF opt = <<>> THEN DefaultBlockSize(object_size, parallel_downloads) ELSE opt[1]

\* variant: truncating division, the partial last block is lost
NumBlocksFloor(object_size, block_size) == object_size \div block_size

\* variant: one block more than the quotient, whether or not there is a remainder
NumBlocksPlusOne(object_size, block_size) == object_size \div block_size + 1

\* (object_size + block_size - 1) / block_size
NumBlocks(object_size, block_size) == (object_size + block_size - 1) \div block_size

\* variant: the last block is not truncated to the object's end
BlockRangeNoClamp(block_i, block_size, object_size) ==
    [start |-> block_i * block_size, end |-> (block_i + 1) * block_size]

\* start = block_i * block_size; end = min((block_i + 1) * block_size, object_size)
BlockRange(block_i, block_size, object_size) ==
    [start |-> block_i * block_size,
     end |-> Min((block_i + 1) * block_size, object_size)]

\* ---------------------------------------------------------------- columnar layout
GroupSize(page_sizes) == SumSeq(page_sizes)

NumGroups(object_size, group_size) == object_size \div group_size

\* variant: the running offset restarts at 0 for every group
RECURSIVE FillOffsetsReset(_, _, _, _, _, _)
FillOffsetsReset(page_sizes, num_groups, group_i, column_i, offset, acc) ==
    IF group_i >= num_groups THEN acc
    ELSE IF column_i > Len(page_sizes)
         THEN FillOffsetsReset(page_sizes, num_groups, group_i + 1, 1, 0, acc)
         ELSE FillOffsetsReset(page_sizes, num_groups, group_i, column_i + 1,
                               offset + page_sizes[column_i],
                               [acc EXCEPT ![column_i] = Append(@, offset)])

\* the nested loop filling page_offsets[column_i] with a running offset
RECURSIVE FillOffsets(_, _, _, _, _, _)
FillOffsets(page_sizes, num_groups, group_i, column_i, offset, acc) ==
    IF group_i >= num_groups THEN acc
    ELSE IF column_i > Len(page_sizes)
         THEN FillOffsets(page_sizes, num_groups, group_i + 1, 1, offset, acc)
         ELSE FillOffsets(page_sizes, num_groups, group_i, column_i + 1,
                          offset + page_sizes[column_i],
                          [acc EXCEPT ![column_i] = Append(@, offset)])

PageOffsets(page_sizes, num_groups) ==
    FillOffsets(page_sizes, num_groups, 0, 1, 0, [c \in 1..Len(page_sizes) |-> <<>>])

\* range = offset..(offset + page_size), offset = page_offsets[column_i][group_i]
PageRange(group_i, column_i, page_sizes, page_offsets) ==
    [start |-> page_offsets[column_i][group_i + 1],
     end |-> page_offsets[column_i][group_i + 1] + page_sizes[column_i]]

\* variant: object-major order, all units of one object before the next object
RangesIterObjectMajor(num_units, num_objects) ==
    [t \in 1..(num_units * num_objects) |->
        [unit |-> (t - 1) % num_units, obj |-> ((t - 1) \div num_units) + 1]]

\* variant: the last item of the iteration is dropped
RangesIterShort(num_units, num_objects) ==
    [t \in 1..(num_units * num_objects - 1) |->
        [unit |-> (t - 1) \div num_objects, obj |-> ((t - 1) % num_objects) + 1]]

\* (0..num_units).flat_map(|i| objects.iter().map(|meta| (meta, i)))
RangesIter(num_units, num_objects) ==
    [t \in 1..(num_units * num_objects) |->
        [unit |-> (t - 1) \div num_objects, obj |-> ((t - 1) % num_objects) + 1]]

\* ---------------------------------------------------------------- derived
NumCols == IF input.pattern = "columnar" THEN Len(input.page_sizes) ELSE 1
CallIds == DOMAIN calls
ColsOf(t) == {c \in 1..NumCols : <<t, c>> \in CallIds}
Finished(st) == st \in {"ok", "err", "fault"}
InFlight == {id \in CallIds : calls[id] = "running"}
Failures == {id \in CallIds : calls[id] \in {"err", "fault"}}

\* the byte range requested by call (t, c)
RangeOf(t, c) ==
    IF input.pattern = "block"
    THEN BlockRange(plan[t].unit, layout.unit_size, layout.object_size)
    ELSE PageRange(plan[t].unit, c, input.page_sizes, layout.page_offsets)
RangeLen(t, c) == RangeOf(t, c).end - RangeOf(t, c).start

\* ---------------------------------------------------------------- initial states
\* what the backend answers to head(location) and list(location)
Stores(sizes, listings) ==
    {[head |-> "ok", headSize |-> z, listing |-> <<>>, listFails |-> FALSE] : z \in sizes}
    \cup {[head |-> "notfound", headSize |-> 0, listing |-> l, listFails |-> FALSE] :
            l \in listings}
    \cup {[head |-> "notfound", headSize |-> 0, listing |-> <<>>, listFails |-> TRUE],
          [head |-> "error", headSize |-> 0, listing |-> <<>>, listFails |-> FALSE]}

\* the subcommand and its options (block_size: <<>> is None, <<b>> is Some(b));
\* parallel_downloads is taken to be at least 1
Args(maxPar, maxBlock, maxPage, maxCols) ==
    {[pattern |-> "block", parallel_downloads |-> p, block_size |-> b, page_sizes |-> <<>>] :
        p \in 1..maxPar, b \in {<<>>} \cup {<<x>> : x \in 0..maxBlock}}
    \cup {[pattern |-> "columnar", parallel_downloads |-> p, block_size |-> <<>>,
           page_sizes |-> ps] :
        p \in 1..maxPar, ps \in SeqsUpTo(1..maxPage, 1, maxCols)}

Inputs(stores, args) ==
    {[pattern |-> a.pattern, parallel_downloads |-> a.parallel_downloads,
      block_size |-> a.block_size, page_sizes |-> a.page_sizes,
      head |-> st.head, headSize |-> st.headSize, listing |-> st.listing,
      listFails |-> st.listFails] : st \in stores, a \in args}

UniformListings(sizes) == {[i \in 1..n |-> z] : n \in 0..MaxObjects, z \in sizes}

InitWith(ins) ==
    /\ input \in ins
    /\ pc = "inspect"
    /\ objects = <<>>
    /\ layout = NoLayout
    /\ plan = <<>>
    /\ nextTask = 1
    /\ queue = <<>>
    /\ fut = <<>>
    /\ rq = <<>>
    /\ calls = <<>>
    /\ issued = <<>>
    /\ collected = <<>>
    /\ printed = <<>>
    /\ abort = NoAbort
    /\ headCalls = 0
    /\ listCalls = 0

\* the number of get_range calls the run on input in will plan (0 when the
\* run ends before planning)
PlannedCalls(in) ==
    LET r == inspect_location(in)
        objs == r.objs
    IN IF ~r.ok \/ objs = <<>> \/ ~AllSame(objs) THEN 0
       ELSE IF in.pattern = "block"
       THEN LET bs == BlockSizeOf(in.block_size, objs[1], in.parallel_downloads)
            IN IF bs = 0 THEN 0 ELSE Len(objs) * NumBlocks(objs[1], bs)
       ELSE LET gs == GroupSize(in.page_sizes)
            IN IF gs = 0 THEN 0
               ELSE Len(objs) * NumGroups(objs[1], gs) * Len(in.page_sizes)

Init ==
    InitWith({in \in Inputs(Stores(0..MaxObjectSize,
                                   SeqsUpTo(0..MaxObjectSize, 0, MaxObjects)),
                            Args(MaxParallel, MaxBlockSize, MaxPageSize, MaxColumns)) :
                PlannedCalls(in) <= MaxCalls})

\* ---------------------------------------------------------------- actions
\* let objects = inspect_location(..).await?;
Inspect ==
    /\ pc = "inspect"
    /\ LET r == inspect_location(input) IN
        /\ headCalls' = headCalls + 1
        /\ listCalls' = listCalls + r.lists
        /\ IF r.ok
           THEN /\ objects' = r.objs
                /\ pc' = "layout"
                /\ abort' = abort
           ELSE /\ objects' = objects
                /\ pc' = "failed"
                /\ abort' = [NoAbort EXCEPT !.kind = r.kind]
    /\ UNCHANGED <<input, layout, plan, nextTask, queue, fut, rq, calls,
                   issued, collected, printed>>

\* variant: the panic is swallowed and the run goes on with nothing planned
PanicSwallowed(kind) ==
    /\ pc' = "fill"
    /\ abort' = abort
    /\ UNCHANGED <<layout, plan, fut, calls, issued>>

\* objects[0] out of bounds, a failed assert!, a division by zero: the thread
\* unwinds out of the benchmark function.
Panic(kind) ==
    /\ pc' = "panicked"
    /\ abort' = [NoAbort EXCEPT !.kind = kind]
    /\ UNCHANGED <<layout, plan, fut, calls, issued>>

StartRun(object_size, unit_size, num_units, page_offsets, ncols) ==
    LET p == RangesIter(num_units, Len(objects)) IN
    /\ layout' = [object_size |-> object_size, unit_size |-> unit_size,
                  num_units |-> num_units, page_offsets |-> page_offsets]
    /\ plan' = p
    /\ fut' = [t \in 1..Len(p) |-> "planned"]
    /\ calls' = [id \in (1..Len(p)) \X (1..ncols) |-> "none"]
    /\ issued' = [id \in (1..Len(p)) \X (1..ncols) |-> 0]
    /\ pc' = "fill"
    /\ abort' = abort

\* download.rs 22-40: objects[0], the size assertion, block_size, num_blocks
LayoutBlock ==
    /\ pc = "layout"
    /\ input.pattern = "block"
    /\ IF objects = <<>> THEN Panic("index")
       ELSE IF ~AllSame(objects) THEN Panic("size_mismatch")
       ELSE LET object_size == objects[1]
                block_size == BlockSizeOf(input.block_size, object_size,
                                          input.parallel_downloads)
            IN IF block_size = 0 THEN Panic("div_zero")
               ELSE StartRun(object_size, block_size,
                             NumBlocks(object_size, block_size), <<>>, 1)
    /\ UNCHANGED <<input, objects, nextTask, queue, rq, collected, printed,
                   headCalls, listCalls>>

\* columnar.rs 23-54: objects[0], the size assertion, group_size, num_groups,
\* the "object is too small" assertion, page_offsets
LayoutColumnar ==
    /\ pc = "layout"
    /\ input.pattern = "columnar"
    /\ IF objects = <<>> THEN Panic("index")
       ELSE IF ~AllSame(objects) THEN Panic("size_mismatch")
       ELSE LET object_size == objects[1]
                group_size == GroupSize(input.page_sizes)
            IN IF group_size = 0 THEN Panic("div_zero")
               ELSE LET num_groups == NumGroups(object_size, group_size)
                        total_size == group_size * num_groups
                    IN IF ~(total_size <= object_size) THEN Panic("too_small")
                       ELSE StartRun(object_size, group_size, num_groups,
                                     PageOffsets(input.page_sizes, num_groups),
                                     Len(input.page_sizes))
    /\ UNCHANGED <<input, objects, nextTask, queue, rq, collected, printed,
                   headCalls, listCalls>>

\* ---------------------------------------------------------------- the window
\* tokio::task::spawn(async move { object_store.get_range(..).await.map(..) })
Spawn(ids) ==
    /\ calls' = [id \in DOMAIN calls |-> IF id \in ids THEN "running" ELSE calls[id]]
    /\ issued' = [id \in DOMAIN issued |-> IF id \in ids THEN issued[id] + 1 ELSE issued[id]]

\* variant: only the first column of the row-group is read
GroupReadsFirst(t) == {<<t, 1>>}

\* columnar.rs 63-80: one spawned get_range per column of the row-group
GroupReads(t) == {<<t, c>> : c \in 1..NumCols}

\* variant: the fill loop admits while len <= max
HasSlotOffByOne(len, max) == len <= max

\* Buffered::poll_next, the fill loop's condition: in_progress_queue.len() < max
HasSlot(len, max) == len < max

\* The fill loop of Buffered::poll_next: the number of items it admits,
\* starting from a queue of length len and stream position nxt.
RECURSIVE FillCount(_, _)
FillCount(len, nxt) ==
    IF HasSlot(len, input.parallel_downloads) /\ nxt <= Len(plan)
    THEN 1 + FillCount(len + 1, nxt + 1)
    ELSE 0

\* The fill loop (synchronous code, no await inside): while there is a slot
\* and the stream has an item, pull the next item of ranges_iter through the
\* map closure and push the future it returns. The block pattern's closure
\* spawns the get_range task; the columnar closure only builds an async
\* block. Then the queue is polled.
Fill ==
    /\ pc = "fill"
    /\ LET k == FillCount(Len(queue), nextTask)
           admitted == [i \in 1..k |-> nextTask + i - 1]
       IN /\ queue' = queue \o admitted
          /\ rq' = rq \o admitted
          /\ fut' = [t \in DOMAIN fut |->
                        IF t >= nextTask /\ t < nextTask + k THEN "new" ELSE fut[t]]
          /\ nextTask' = nextTask + k
          /\ IF input.pattern = "block"
             THEN Spawn({<<admitted[i], 1>> : i \in 1..k})
             ELSE UNCHANGED <<calls, issued>>
    /\ pc' = "poll"
    /\ UNCHANGED <<input, objects, layout, plan, collected, printed, abort,
                   headCalls, listCalls>>

\* variant: a get_range error counts as zero bytes instead of returning Err
RECURSIVE GroupResultIgnoreErr(_, _, _)
GroupResultIgnoreErr(t, c, total) ==
    IF c > NumCols THEN [ok |-> TRUE, val |-> total, kind |-> "none", col |-> 0]
    ELSE IF calls[<<t, c>>] = "ok"
         THEN GroupResultIgnoreErr(t, c + 1, total + RangeLen(t, c))
    ELSE IF calls[<<t, c>>] = "err" THEN GroupResultIgnoreErr(t, c + 1, total)
         ELSE [ok |-> FALSE, val |-> 0, kind |-> "join", col |-> c]

\* variant: the fold reports the last failed column instead of the first
RECURSIVE GroupResultLastFailure(_, _, _)
GroupResultLastFailure(t, c, total) ==
    IF c > NumCols THEN [ok |-> TRUE, val |-> total, kind |-> "none", col |-> 0]
    ELSE LET rest == GroupResultLastFailure(t, c + 1, total + RangeLen(t, c))
         IN IF ~rest.ok /\ rest.col > c THEN rest
            ELSE IF calls[<<t, c>>] = "ok" THEN rest
            ELSE IF calls[<<t, c>>] = "err"
                 THEN [ok |-> FALSE, val |-> 0, kind |-> "get_range", col |-> c]
                 ELSE [ok |-> FALSE, val |-> 0, kind |-> "join", col |-> c]

\* columnar.rs 82-90: fold the join_all results in column order
RECURSIVE GroupResult(_, _, _)
GroupResult(t, c, total) ==
    IF c > NumCols THEN [ok |-> TRUE, val |-> total, kind |-> "none", col |-> 0]
    ELSE IF calls[<<t, c>>] = "ok" THEN GroupResult(t, c + 1, total + RangeLen(t, c))
    ELSE IF calls[<<t, c>>] = "err"
         THEN [ok |-> FALSE, val |-> 0, kind |-> "get_range", col |-> c]
         ELSE [ok |-> FALSE, val |-> 0, kind |-> "join", col |-> c]

\* download.rs 47-56: the JoinHandle's output as try_collect sees it. Only a
\* JoinError is the stream's Err; the get_range Result is the Ok item.
BlockResult(t) ==
    IF calls[<<t, 1>>] = "fault"
    THEN [ok |-> FALSE, val |-> 0, kind |-> "join", col |-> 1]
    ELSE [ok |-> TRUE, val |-> IF calls[<<t, 1>>] = "ok" THEN RangeLen(t, 1) ELSE -1,
          kind |-> "none", col |-> 0]

Output(t) == IF input.pattern = "block" THEN BlockResult(t) ELSE GroupResult(t, 1, 0)

\* variant: dropping a JoinHandle aborts its task
DropHandlesAborting(cs) ==
    [id \in DOMAIN cs |-> IF cs[id] = "running" THEN "cancelled" ELSE cs[id]]

\* The stream and its JoinHandles are dropped when the function returns; a
\* dropped tokio JoinHandle detaches its task, which keeps running.
DropHandles(cs) == cs

HeadReady == queue # <<>> /\ fut[Head(queue)] = "done"

\* FuturesOrdered yields the output of the oldest future; try_collect pushes an
\* Ok item and polls again, and returns at once on an Err item (the `?` then
\* returns from the benchmark function, dropping the stream).
YieldHead ==
    /\ pc = "poll"
    /\ HeadReady
    /\ LET t == Head(queue)
           r == Output(t)
       IN IF r.ok
          THEN /\ collected' = Append(collected, r.val)
               /\ queue' = Tail(queue)
               /\ fut' = [fut EXCEPT ![t] = "yielded"]
               /\ pc' = "fill"
               /\ UNCHANGED <<rq, abort, calls>>
          ELSE /\ pc' = "failed"
               /\ abort' = [kind |-> r.kind, task |-> t, col |-> r.col,
                             inflight |-> InFlight]
               /\ queue' = <<>>
               /\ rq' = <<>>
               /\ calls' = DropHandles(calls)
               /\ UNCHANGED <<collected, fut>>
    /\ UNCHANGED <<input, objects, layout, plan, nextTask, issued, printed,
                   headCalls, listCalls>>

\* FuturesUnordered polls the next future of its ready-to-run queue.
\* Block pattern: the future is a JoinHandle. Columnar pattern: the future is
\* the async block, which on its first poll spawns one task per column and
\* then awaits join_all of them.
PollFuture ==
    /\ pc = "poll"
    /\ ~HeadReady
    /\ rq # <<>>
    /\ LET t == Head(rq) IN
        /\ rq' = Tail(rq)
        /\ IF input.pattern = "block"
           THEN /\ fut' = [fut EXCEPT ![t] =
                            IF Finished(calls[<<t, 1>>]) THEN "done" ELSE "waiting"]
                /\ UNCHANGED <<calls, issued>>
           ELSE IF fut[t] = "new"
                THEN /\ Spawn(GroupReads(t))
                     /\ fut' = [fut EXCEPT ![t] = "joining"]
                ELSE /\ fut' = [fut EXCEPT ![t] =
                                 IF \A c \in 1..NumCols : Finished(calls[<<t, c>>])
                                 THEN "done" ELSE "joining"]
                     /\ UNCHANGED <<calls, issued>>
    /\ UNCHANGED <<input, pc, objects, layout, plan, nextTask, queue, collected,
                   printed, abort, headCalls, listCalls>>

\* Nothing is ready: the benchmark function's task returns Pending.
Park ==
    /\ pc = "poll"
    /\ ~HeadReady
    /\ rq = <<>>
    /\ queue # <<>>
    /\ pc' = "pending"
    /\ UNCHANGED <<input, objects, layout, plan, nextTask, queue, fut, rq, calls,
                   issued, collected, printed, abort, headCalls, listCalls>>

\* variant: the stream ends as soon as the plan is exhausted
StreamEndedEarly(q, next, n) == next > n

\* Buffered yields None once the plan iterator is exhausted and no admitted
\* future is left in its queue.
StreamEnded(q, next, n) == q = <<>> /\ next > n

\* The stream ended: try_collect returns the Vec; the record is printed.
Finish ==
    /\ pc = "poll"
    /\ StreamEnded(queue, nextTask, Len(plan))
    /\ printed' = Append(printed,
            [num_objects |-> Len(objects), num_units |-> layout.num_units,
             total_size |-> IF input.pattern = "block"
                            THEN layout.object_size * Len(objects)
                            ELSE Len(objects) * layout.unit_size * layout.num_units])
    /\ pc' = "done"
    /\ UNCHANGED <<input, objects, layout, plan, nextTask, queue, fut, rq, calls,
                   issued, collected, abort, headCalls, listCalls>>

\* A waker fired: the runtime polls the benchmark function again.
Wake ==
    /\ pc = "pending"
    /\ rq # <<>>
    /\ pc' = "fill"
    /\ UNCHANGED <<input, objects, layout, plan, nextTask, queue, fut, rq, calls,
                   issued, collected, printed, abort, headCalls, listCalls>>

InSeq(x, s) == \E i \in 1..Len(s) : s[i] = x

\* A spawned get_range task finishes: Ok(bytes), Err(e), or the task faults.
\* It wakes the future awaiting its JoinHandle, if that future still exists.
Complete(id, r) ==
    /\ calls[id] = "running"
    /\ (r # "ok") => Cardinality(Failures) < MaxFailures
    /\ calls' = [calls EXCEPT ![id] = r]
    /\ rq' = IF /\ fut[id[1]] \in {"waiting", "joining"}
                /\ InSeq(id[1], queue)
                /\ ~InSeq(id[1], rq)
             THEN Append(rq, id[1]) ELSE rq
    /\ UNCHANGED <<input, pc, objects, layout, plan, nextTask, queue, fut, issued,
                   collected, printed, abort, headCalls, listCalls>>

CompleteOk == \E id \in CallIds : Complete(id, "ok")
CompleteErr == \E id \in CallIds : Complete(id, "err")
CompleteFault == \E id \in CallIds : Complete(id, "fault")

Next ==
    \/ Inspect \/ LayoutBlock \/ LayoutColumnar
    \/ Fill \/ YieldHead \/ PollFuture \/ Park \/ Finish \/ Wake
    \/ CompleteOk \/ CompleteErr \/ CompleteFault

Spec == Init /\ [][Next]_vars

\* ---------------------------------------------------------------- layout-only runs
\* Larger sizes, exercised up to the end of layout planning only. Listings of
\* unequal sizes are drawn from the small sizes, equal ones from all sizes.
InitLayout ==
    InitWith(Inputs(Stores(0..MaxLayoutSize,
                           UniformListings(0..MaxLayoutSize)
                             \cup SeqsUpTo(0..MaxObjectSize, 0, MaxObjects)),
                    Args(MaxLayoutPar, MaxLayoutSize, MaxLayoutPage, MaxLayoutColumns)))

NextLayout == Inspect \/ LayoutBlock \/ LayoutColumnar

SpecLayout == InitLayout /\ [][NextLayout]_vars

\* ---------------------------------------------------------------- worked scenarios
\* The runs with the concrete sizes of the documented scenarios: three objects
\* of 900 bytes read in blocks of 300; one object of 1000 bytes read in blocks
\* of 300; one object of 125 bytes read as pages of 10, 20 and 30 bytes.
ScenarioInputs ==
    {[pattern |-> "block", parallel_downloads |-> p, block_size |-> <<300>>,
      page_sizes |-> <<>>, head |-> "notfound", headSize |-> 0,
      listing |-> <<900, 900, 900>>, listFails |-> FALSE] : p \in 1..MaxParallel}
    \cup {[pattern |-> "block", parallel_downloads |-> p, block_size |-> <<300>>,
           page_sizes |-> <<>>, head |-> "ok", headSize |-> 1000,
           listing |-> <<>>, listFails |-> FALSE] : p \in 1..MaxParallel}
    \cup {[pattern |-> "columnar", parallel_downloads |-> p, block_size |-> <<>>,
           page_sizes |-> <<10, 20, 30>>, head |-> "ok", headSize |-> 125,
           listing |-> <<>>, listFails |-> FALSE] : p \in 1..MaxParallel}

InitScenario == InitWith(ScenarioInputs)

SpecScenario == InitScenario /\ [][Next]_vars

TypeOK ==
    /\ pc \in {"inspect", "layout", "fill", "poll", "pending", "done", "failed", "panicked"}
    /\ Len(queue) <= Len(plan)
    /\ nextTask \in 1..(Len(plan) + 1)

\* ================================================================ properties
LayoutRan == pc \notin {"inspect", "layout"} /\ objects # <<>> /\ AllSame(objects)
Scheduled == pc \in {"fill", "poll", "pending", "done"} \/ (pc = "failed" /\ plan # <<>>)
Started(t) == \E c \in 1..NumCols : calls[<<t, c>>] # "none"
Unfinished(t) == \E c \in 1..NumCols : ~Finished(calls[<<t, c>>])
\* least n with n * b >= a
CeilDiv(a, b) == CHOOSE n \in 0..a : n * b >= a /\ (n = 0 \/ (n - 1) * b < a)
TasksOfObject(k) == {t \in 1..Len(plan) : plan[t].obj = k}
TaskOf(k, u) == CHOOSE t \in 1..Len(plan) : plan[t].obj = k /\ plan[t].unit = u

\* C1: block pattern: in every reachable state the number of get_range calls
\* started and not yet completed is at most parallel_downloads.
C1_BlockInFlightBound ==
    (input.pattern = "block") => Cardinality(InFlight) <= input.parallel_downloads

\* the window is full of running fetches while plan items remain unadmitted
C1_Witness ==
    /\ input.pattern = "block"
    /\ input.parallel_downloads = 2
    /\ Cardinality(InFlight) = 2
    /\ nextTask <= Len(plan)
    /\ collected # <<>>

\* C2: block pattern: if any get_range call returns an error, the run returns
\* a failure and prints no result record.
C2_BlockErrorFailsRun ==
    (input.pattern = "block" /\ \E id \in CallIds : calls[id] = "err")
        => (printed = <<>> /\ pc # "done")

\* C3: columnar pattern: if any column get_range returns an error or its task
\* faults, the run never returns success and never prints a record, whatever
\* the completion order; and once every started call has completed and no
\* wake-up is due, the run has returned a failure.
C3_ColumnarErrorFailsRun ==
    (input.pattern = "columnar" /\ Failures # {})
        => /\ printed = <<>>
           /\ pc # "done"
           /\ (pc \in {"pending", "done", "failed"} /\ InFlight = {} /\ rq = <<>>)
                 => pc = "failed"

\* a later row-group's column failed after the first row-group succeeded
C3_Witness ==
    /\ input.pattern = "columnar"
    /\ pc = "failed"
    /\ abort.kind \in {"get_range", "join"}
    /\ abort.task > 1
    /\ printed = <<>>

\* C4: columnar pattern: the window counts row-groups: at most
\* parallel_downloads row-groups are admitted and unfinished, a row-group's
\* column fetches are started all together, and the in-flight get_range calls
\* are bounded by parallel_downloads * len(page_sizes).
C4_WindowCountsRowGroups ==
    (input.pattern = "columnar") =>
        /\ Len(queue) <= input.parallel_downloads
        /\ Cardinality({t \in 1..Len(plan) : Started(t) /\ Unfinished(t)})
              <= input.parallel_downloads
        /\ \A t \in 1..Len(plan) :
              Started(t) => \A c \in 1..NumCols : calls[<<t, c>>] # "none"
        /\ Cardinality(InFlight) <= input.parallel_downloads * Len(input.page_sizes)

\* more get_range calls in flight than parallel_downloads
C4_Witness ==
    /\ input.pattern = "columnar"
    /\ Cardinality(InFlight) > input.parallel_downloads
    /\ Cardinality(InFlight) = input.parallel_downloads * Len(input.page_sizes)
    /\ input.parallel_downloads = 2

\* C5: the window is not head-of-line blocked: the benchmark function never
\* rests (nothing ready, no wake-up due) with plan items unadmitted and fewer
\* than parallel_downloads admitted tasks still running.
C5_NotHeadOfLineBlocked ==
    (pc = "pending" /\ rq = <<>> /\ nextTask <= Len(plan))
        => Cardinality({t \in 1..Len(plan) : InSeq(t, queue) /\ Unfinished(t)})
              = input.parallel_downloads

\* C6: block layout: num_blocks = ceil(object_size / block_size); block i is
\* [i*block_size, min((i+1)*block_size, object_size)); per object the ranges
\* are non-empty, contiguous from 0 to object_size, non-overlapping, sum to
\* object_size, and only the last may be shorter than block_size.
C6_BlockLayout ==
    (input.pattern = "block" /\ Scheduled /\ layout.object_size >= 1) =>
        LET os == layout.object_size
            bs == layout.unit_size
            n == layout.num_units
        IN /\ bs >= 1
           /\ n = CeilDiv(os, bs)
           /\ Len(plan) = n * Len(objects)
           /\ \A k \in 1..Len(objects) :
                /\ Cardinality(TasksOfObject(k)) = n
                /\ \A u \in 0..(n - 1) :
                     LET r == RangeOf(TaskOf(k, u), 1) IN
                     /\ r.start = u * bs
                     /\ r.start < r.end
                     /\ r.end <= os
                     /\ (u < n - 1) => r.end - r.start = bs
                     /\ (u < n - 1) => RangeOf(TaskOf(k, u + 1), 1).start = r.end
                     /\ (u = n - 1) => r.end = os
                /\ \A u, v \in 0..(n - 1) :
                     (u < v) => RangeOf(TaskOf(k, u), 1).end
                                   <= RangeOf(TaskOf(k, v), 1).start

\* an object whose size is not a multiple of the block size: the last of
\* several blocks is truncated
C6_Witness ==
    /\ input.pattern = "block"
    /\ pc = "fill"
    /\ layout.object_size = 10
    /\ layout.unit_size = 3
    /\ layout.num_units = 4
    /\ Len(objects) = 2
    /\ RangeOf(TaskOf(2, 3), 1) = [start |-> 9, end |-> 10]

\* C7: block pattern default: with no block_size given the block size is
\* ceil(object_size / parallel_downloads), hence at least 1, and the object
\* is split into at most parallel_downloads blocks.
C7_DefaultBlockSizeIsCeil ==
    (input.pattern = "block" /\ input.block_size = <<>> /\ LayoutRan
            /\ objects[1] >= 1) =>
        /\ pc # "panicked"
        /\ layout.unit_size = CeilDiv(objects[1], input.parallel_downloads)
        /\ layout.unit_size >= 1
        /\ layout.num_units <= input.parallel_downloads

\* C8: columnar layout: group_size = sum(page_sizes), num_groups =
\* floor(object_size / group_size); the page of column c of group g is
\* [g*group_size + sum(page_sizes[0..c)), that + page_sizes[c]); per object
\* the ranges are strictly increasing in (g, c) order, non-overlapping, end
\* at or before num_groups*group_size <= object_size, and the ranges of one
\* group have total length group_size.
C8_ColumnarLayout ==
    (input.pattern = "columnar" /\ Scheduled) =>
        LET ps == input.page_sizes
            gs == layout.unit_size
            n == layout.num_units
            os == layout.object_size
            Pos(g, c) == g * Len(ps) + c
        IN /\ gs = SumSeq(ps)
           /\ n * gs <= os
           /\ os < (n + 1) * gs
           /\ Len(plan) = n * Len(objects)
           /\ \A k \in 1..Len(objects) :
                /\ Cardinality(TasksOfObject(k)) = n
                /\ \A g \in 0..(n - 1) :
                     /\ \A c \in 1..Len(ps) :
                          LET r == RangeOf(TaskOf(k, g), c) IN
                          /\ r.start = g * gs + SumSeq(SubSeq(ps, 1, c - 1))
                          /\ r.end = r.start + ps[c]
                          /\ r.end <= n * gs
                     /\ SumSeq([c \in 1..Len(ps) |-> RangeLen(TaskOf(k, g), c)]) = gs
                /\ \A g, h \in 0..(n - 1) : \A c, d \in 1..Len(ps) :
                     (Pos(g, c) < Pos(h, d)) =>
                        /\ RangeOf(TaskOf(k, g), c).start < RangeOf(TaskOf(k, h), d).start
                        /\ RangeOf(TaskOf(k, g), c).end <= RangeOf(TaskOf(k, h), d).start

\* several groups of several columns of different sizes, with a remainder of
\* the object left unread
C8_Witness ==
    /\ input.pattern = "columnar"
    /\ pc = "fill"
    /\ input.page_sizes = <<1, 2, 1>>
    /\ layout.object_size = 2 * 4 + 1
    /\ layout.num_units = 2
    /\ Len(objects) = 2
    /\ RangeOf(TaskOf(2, 1), 2) = [start |-> 5, end |-> 7]

\* C9: columnar pattern: when object_size < sum(page_sizes), so that zero
\* groups result, the run is rejected with an error before any scheduling
\* begins and no result record is printed.
C9_ZeroGroupsRejected ==
    (input.pattern = "columnar" /\ LayoutRan
            /\ objects[1] < SumSeq(input.page_sizes)) =>
        /\ pc \in {"failed", "panicked"}
        /\ printed = <<>>

\* C10: no get_range call is ever started twice, and in a run that ended with
\* every get_range successful each planned fetch was started exactly once:
\* one call per (object, unit, column), num_objects * num_units * columns in
\* all.
C10_EachFetchIssuedOnce ==
    /\ \A id \in CallIds : issued[id] <= 1
    /\ (pc = "done" /\ \A id \in CallIds : calls[id] = "ok") =>
          /\ \A id \in CallIds : issued[id] = 1
          /\ Cardinality(CallIds) = Len(objects) * layout.num_units * NumCols
          /\ \A k \in 1..Len(objects) : \A u \in 0..(layout.num_units - 1) :
                Cardinality({t \in 1..Len(plan) :
                                plan[t].obj = k /\ plan[t].unit = u}) = 1
          /\ CallIds = (1..Len(plan)) \X (1..NumCols)

\* a finished all-success run over two objects with several units each
C10_Witness ==
    /\ pc = "done"
    /\ Len(objects) = 2
    /\ layout.num_units >= 2
    /\ Len(plan) = 2 * layout.num_units
    /\ \A id \in CallIds : calls[id] = "ok" /\ issued[id] = 1
    /\ Len(printed) = 1

\* C11 as stated: with 3 objects of size 900 and block_size = 300 the block
\* pattern plans 12 fetch tasks in total and total_bytes = 2700.
C11_ScenarioTwelveTasks ==
    (input.pattern = "block" /\ input.listing = <<900, 900, 900>>
            /\ input.block_size = <<300>> /\ Scheduled) =>
        /\ Len(plan) = 12
        /\ layout.object_size * Len(objects) = 2700

\* C11 amended: with 3 objects of size 900 and block_size = 300 the block
\* pattern plans 9 fetch tasks (3 blocks for each of 3 objects) whose ranges
\* total 2700 bytes, and the total size a finished run reports on is 2700.
C11_ScenarioNineTasks ==
    (input.pattern = "block" /\ input.listing = <<900, 900, 900>>
            /\ input.block_size = <<300>> /\ Scheduled) =>
        /\ layout.num_units = 3
        /\ Len(plan) = 9
        /\ Cardinality(CallIds) = 9
        /\ SumSeq([t \in 1..Len(plan) |-> RangeLen(t, 1)]) = 2700
        /\ layout.object_size * Len(objects) = 2700
        /\ \A i \in 1..Len(printed) : printed[i].total_size = 2700

\* the scenario's run has fetched all nine blocks and printed its record
C11_Witness ==
    /\ input.pattern = "block"
    /\ input.listing = <<900, 900, 900>>
    /\ input.block_size = <<300>>
    /\ pc = "done"
    /\ Len(collected) = 9
    /\ \A id \in CallIds : calls[id] = "ok" /\ issued[id] = 1
    /\ Len(printed) = 1

\* the range lengths of all planned get_range calls, summed
PlannedBytes ==
    SumSeq([t \in 1..Len(plan) |-> SumSeq([c \in 1..NumCols |-> RangeLen(t, c)])])

\* C12: when all tasks succeed, the total byte count the run reports
\* throughput on equals the sum of the range lengths of all fetch tasks and
\* the sum of bytes_read over the completed tasks, whatever the completion
\* order, in both patterns.
C12_ReportedBytesAreFetchedBytes ==
    (pc = "done" /\ \A id \in CallIds : calls[id] = "ok") =>
        /\ Len(printed) = 1
        /\ printed[1].total_size = PlannedBytes
        /\ printed[1].total_size = SumSeq(collected)
        /\ Len(collected) = Len(plan)

\* an all-success run whose last block is shorter than the others
C12_Witness ==
    /\ pc = "done"
    /\ input.pattern = "block"
    /\ layout.object_size = 3
    /\ layout.unit_size = 2
    /\ Len(objects) = 2
    /\ \A id \in CallIds : calls[id] = "ok"
    /\ collected = <<2, 2, 1, 1>>
    /\ printed[1].total_size = 6

SizesDiffer == \E i, j \in 1..Len(objects) : objects[i] # objects[j]
NoCallStarted == \A id \in CallIds : calls[id] = "none" /\ issued[id] = 0

\* C13: if the resolved objects do not all have the same size, the run aborts
\* fatally before any get_range call is started and without printing a
\* record, in both patterns.
C13_SizeMismatchAborts ==
    (pc \notin {"inspect", "layout"} /\ SizesDiffer) =>
        /\ pc = "panicked"
        /\ abort.kind = "size_mismatch"
        /\ plan = <<>>
        /\ NoCallStarted
        /\ printed = <<>>

\* a listing of two objects of different sizes has made the run panic
C13_Witness ==
    /\ pc = "panicked"
    /\ abort.kind = "size_mismatch"
    /\ Len(objects) = 2
    /\ objects[1] > objects[2]
    /\ input.pattern = "columnar"

\* C14: inspect_location: head is requested once and never retried; if head
\* succeeds the result is exactly that one object and list is never called;
\* list is called only after head reported NotFound, and its objects are
\* returned in backend order; if head fails with another error, or list
\* fails, the error propagates and no get_range call is ever started.
C14_InspectLocation ==
    /\ headCalls <= 1
    /\ listCalls <= 1
    /\ (pc # "inspect") =>
        /\ headCalls = 1
        /\ (input.head = "ok") => (objects = <<input.headSize>> /\ listCalls = 0)
        /\ (listCalls > 0) => input.head = "notfound"
        /\ (input.head = "notfound") => listCalls = 1
        /\ (input.head = "notfound" /\ ~input.listFails) => objects = input.listing
        /\ (input.head = "error" \/ input.listFails) =>
              /\ pc = "failed"
              /\ abort.kind = (IF input.head = "error" THEN "head" ELSE "list")
              /\ objects = <<>>
              /\ CallIds = {}
              /\ printed = <<>>

\* head reported NotFound and list returned two objects, largest first
C14_Witness ==
    /\ pc # "inspect"
    /\ input.head = "notfound"
    /\ headCalls = 1
    /\ listCalls = 1
    /\ objects = <<3, 1>>

\* (unit a.unit of object a.obj) precedes (unit b.unit of object b.obj)
UnitMajorBefore(a, b) == a.unit < b.unit \/ (a.unit = b.unit /\ a.obj < b.obj)

\* C15: admission order is unit-index-major and object-minor: a fetch (or a
\* row-group's fetches) is started only when the fetches of every unit that
\* precedes it, by lower unit index or same unit index and earlier object,
\* have been started; so every object receives its unit i before any object
\* receives unit i + 1.
C15_UnitMajorAdmission ==
    \A t, u \in 1..Len(plan) :
        (Started(t) /\ UnitMajorBefore(plan[u], plan[t])) =>
            /\ Started(u)
            /\ fut[u] # "planned"
            /\ u < t

\* with two objects and a window of one, unit 0 of both objects has been
\* started and unit 1 of neither
C15_Witness ==
    /\ Len(objects) = 2
    /\ layout.num_units = 2
    /\ input.parallel_downloads = 1
    /\ \A t \in 1..Len(plan) : Started(t) <=> plan[t].unit = 0
    /\ Started(2)
    /\ plan[2] = [unit |-> 0, obj |-> 2]

\* C16: when a run returns a failure, the get_range calls that were started
\* and still in flight are not cancelled: each of them is still running or
\* has completed with its own result, after the failure was returned.
C16_NoCancelOnFailure ==
    /\ \A id \in CallIds : calls[id] \in {"none", "running", "ok", "err", "fault"}
    /\ (pc = "failed") =>
          \A id \in abort.inflight : calls[id] \in {"running", "ok", "err", "fault"}

\* a call that was in flight when the failure was returned has completed
\* successfully since, while another one is still running
C16_Witness ==
    /\ pc = "failed"
    /\ \E id \in abort.inflight : calls[id] = "ok"
    /\ \E id \in abort.inflight : calls[id] = "running"

\* C17: a result record is printed at most once per run, and when it is
\* printed every planned fetch task has been admitted, started and completed:
\* no get_range call is in flight and none is unadmitted.
C17_RecordOnlyWhenAllDone ==
    /\ Len(printed) <= 1
    /\ (printed # <<>>) =>
          /\ nextTask > Len(plan)
          /\ queue = <<>>
          /\ InFlight = {}
          /\ \A t \in 1..Len(plan) : Started(t) /\ ~Unfinished(t)
          /\ \A id \in CallIds : issued[id] = 1

\* the record of a run whose four tasks went through a window of two
C17_Witness ==
    /\ pc = "done"
    /\ Len(printed) = 1
    /\ Len(plan) = 4
    /\ input.parallel_downloads = 2
    /\ \A id \in CallIds : calls[id] = "ok"

\* C18: liveness: with at least one object, all of one size, and every
\* started get_range call completing successfully, the run eventually admits
\* every planned task and prints its record.  A run that is to print its
\* record must never end abnormally, which is the finite-run part stated
\* here: under these premises the run neither panics nor returns a failure.
C18_SucceedingRunNeverAborts ==
    (LayoutRan /\ Failures = {}) => pc \notin {"panicked", "failed"}

FailedCall(id) == calls[id] \in {"err", "fault"}
HasFailedColumn(t) == \E c \in 1..NumCols : FailedCall(<<t, c>>)

\* C19: columnar pattern: the failure returned is that of the first row-group
\* in plan order with a failed column fetch, and of that row-group's lowest
\* failed column; every earlier row-group completed successfully and was
\* collected, and every column fetch of the failing row-group has completed.
C19_FailureInPlanOrder ==
    (input.pattern = "columnar" /\ pc = "failed" /\ abort.kind \in {"get_range", "join"})
        => LET t == abort.task
               c == abort.col
           IN /\ t \in 1..Len(plan)
              /\ c \in 1..NumCols
              /\ HasFailedColumn(t)
              /\ \A u \in 1..(t - 1) :
                    /\ ~HasFailedColumn(u)
                    /\ \A d \in 1..NumCols : calls[<<u, d>>] = "ok"
                    /\ fut[u] = "yielded"
              /\ Len(collected) = t - 1
              /\ \A d \in 1..NumCols : Finished(calls[<<t, d>>])
              /\ FailedCall(<<t, c>>)
              /\ \A d \in 1..(c - 1) : calls[<<t, d>>] = "ok"
              /\ abort.kind = (IF calls[<<t, c>>] = "err" THEN "get_range" ELSE "join")

\* the second row-group's fetch has faulted, and the failure returned is the
\* get_range error of the first row-group
C19_Witness ==
    /\ input.pattern = "columnar"
    /\ pc = "failed"
    /\ input.parallel_downloads = 2
    /\ abort = [kind |-> "get_range", task |-> 1, col |-> 1, inflight |-> {}]
    /\ Len(plan) = 2
    /\ HasFailedColumn(2)
    /\ calls[<<2, 1>>] = "fault"

EmptyListing == input.head = "notfound" /\ ~input.listFails /\ input.listing = <<>>

\* C20: when head reports NotFound and the listing under the prefix is empty,
\* the run terminates abnormally (objects[0] is out of bounds) before any
\* get_range call is started and prints no record, in both patterns.
C20_EmptyListingAborts ==
    (EmptyListing /\ pc # "inspect") =>
        /\ objects = <<>>
        /\ pc \in {"layout", "panicked"}
        /\ (pc = "panicked") => abort.kind = "index"
        /\ plan = <<>>
        /\ NoCallStarted
        /\ printed = <<>>

\* the columnar run has panicked on the empty listing
C20_Witness ==
    /\ EmptyListing
    /\ input.pattern = "columnar"
    /\ pc = "panicked"
    /\ abort.kind = "index"
    /\ headCalls = 1
    /\ listCalls = 1

====
